---- MODULE Spec2Model ----
(***************************************************************************)
(* Model of the Yellog logger (src/include/yelloger.h): one process-wide   *)
(* instance, called by several threads.  Every statement of Yellog::log,   *)
(* Yellog::enable_file_output and Yellog::free_file that reads or writes   *)
(* shared state is one step of the calling thread; pc values are named     *)
(* after the source line the thread is about to execute.                   *)
(*                                                                         *)
(* The C library is modelled by what the code relies on: fopen in append   *)
(* mode, fclose, printf/fprintf appending fragments to a stream, time,     *)
(* localtime with its process-shared result object, strftime.  A stream's  *)
(* content is the sequence of fragments written to it (stdio buffering is  *)
(* not modelled).  Using a closed or null FILE* is undefined behaviour:    *)
(* the step records it in ub and either goes on (the write is lost) or     *)
(* the process crashes.  The strings a caller passes (paths, formats) are  *)
(* taken to outlive the logger, which keeps the pointers.                  *)
(*                                                                         *)
(* The callers are the environment.  discipline fixes how they use the     *)
(* logger in a run: "free" (any call may overlap any other), "quiet"       *)
(* (EnableFileOutput overlaps no other call) or "serial" (one thread makes *)
(* every call); ncalls bounds the calls of a run.                          *)
(***************************************************************************)
EXTENDS Integers, Sequences, FiniteSets, TLC

\* ---------------------------------------------------------------- bounds
NThreads == 2
\* calls made in a run where any call may overlap any other
MaxCalls == 3
\* calls made in a run where EnableFileOutput overlaps no other call
MaxQuietCalls == 3
\* calls made in a run where one thread makes every call
MaxSerialCalls == 4
MaxClock == 1

Threads == 1..NThreads

\* ------------------------------------------------------------- constants
\* enum LogPriority, line 38
TracePriority == 0
DebugPriority == 1
InfoPriority == 2
WarnPriority == 3
ErrorPriority == 4
CriticalPriority == 5
LogPriority == TracePriority..CriticalPriority

NoPath == "null"
DefaultPath == "log.txt"
OtherPath == "other.log"
BadPath == "/nonexistent-dir/x.log"
\* the paths a caller passes to EnableFileOutput(const char*)
Paths == {DefaultPath, OtherPath, BadPath}
\* the paths whose parent directory exists: fopen(path, "a") can succeed
Openable == {DefaultPath, OtherPath}

DefaultFormat == "%T  %d-%m-%Y"
YearFormat == "%Y"
Formats == {DefaultFormat, YearFormat}

Msgs == {"msg"}

NoThread == 0
NullFile == 0
NoFile == <<"absent">>

\* the wrappers with the labels of Warn and Error exchanged
EntryPointsSwapped ==
  { [name |-> "Trace",    label |-> "[TRACE]     ", sev |-> TracePriority],
    [name |-> "Debug",    label |-> "[DEBUG]     ", sev |-> DebugPriority],
    [name |-> "Info",     label |-> "[INFO ]     ", sev |-> InfoPriority],
    [name |-> "Warn",     label |-> "[ERROR]     ", sev |-> WarnPriority],
    [name |-> "Error",    label |-> "[WARN ]     ", sev |-> ErrorPriority],
    [name |-> "Critical", label |-> "[CRIT ]     ", sev |-> CriticalPriority] }

\* the six entry points, lines 92-132: name, label passed to log, severity
EntryPoints ==
  { [name |-> "Trace",    label |-> "[TRACE]     ", sev |-> TracePriority],
    [name |-> "Debug",    label |-> "[DEBUG]     ", sev |-> DebugPriority],
    [name |-> "Info",     label |-> "[INFO ]     ", sev |-> InfoPriority],
    [name |-> "Warn",     label |-> "[WARN ]     ", sev |-> WarnPriority],
    [name |-> "Error",    label |-> "[ERROR]     ", sev |-> ErrorPriority],
    [name |-> "Critical", label |-> "[CRIT ]     ", sev |-> CriticalPriority] }

VARIABLES
  priority,          \* Yellog::priority
  log_mutex,         \* Yellog::log_mutex: the thread holding it, or NoThread
  filepath,          \* Yellog::filepath
  file,              \* Yellog::file: index into handles, or NullFile
  buffer,            \* Yellog::buffer: the rendered timestamp
  timestamp_format,  \* Yellog::timestamp_format
  handles,           \* every FILE the logger has opened: [path, open]
  disk,              \* path -> content of the file, or NoFile
  stdout,            \* content of standard output
  tmbuf,             \* the result object of std::localtime, shared by the process
  clock,             \* what std::time(0) returns now
  pc,                \* per thread: the source line it is about to execute
  frame,             \* per thread: arguments and locals of its call to log
  ret,               \* history: the call that returned in the step just taken
  running,           \* "running", "crashed" or "exited"
  ub,                \* the undefined behaviours executed so far
  ncalls,            \* calls the threads may still start
  discipline,        \* how the callers use the logger: "free", "quiet" or "serial"
  requested,         \* history: the path of the most recent EnableFileOutput call
  hist               \* history: the accepted log calls that have returned

vars == << priority, log_mutex, filepath, file, buffer, timestamp_format,
           handles, disk, stdout, tmbuf, clock, pc, frame, ret, running, ub,
           ncalls, discipline, requested, hist >>

shared == << priority, log_mutex, filepath, file, buffer, timestamp_format,
             handles, disk, stdout, tmbuf >>

\* a call of log: its arguments, its local current_time, and what it has done
\* so far: the threshold it read, the fragments it wrote to each sink
NoFrame == [name |-> "", label |-> "", sev |-> 0, msg |-> "", current_time |-> 0,
            rendered |-> << >>, seen |-> 0, nout |-> 0, nfile |-> 0]
\* no call returned in the step just taken
NoRet == [op |-> "none", t |-> 0, val |-> 0]

\* ------------------------------------------------------------ C library
\* std::localtime: seconds since the epoch broken down (UTC, first day)
localtime(t) ==
  [tm_sec |-> t % 60, tm_min |-> (t \div 60) % 60, tm_hour |-> (t \div 3600) % 24,
   tm_mday |-> 1, tm_mon |-> 0, tm_year |-> 70]

\* std::strftime(buffer, 80, fmt, tm): the rendered fields, in order
strftime(fmt, tm) ==
  IF fmt = DefaultFormat
    THEN << tm.tm_hour, tm.tm_min, tm.tm_sec, tm.tm_mday, tm.tm_mon + 1,
            tm.tm_year + 1900 >>
    ELSE << tm.tm_year + 1900 >>

OpenHandles == { h \in 1..Len(handles) : handles[h].open }

\* what a stream write does to the files: a fragment appended to the file
\* the handle was opened on
WriteFile(h, frag) ==
  [disk EXCEPT ![handles[h].path] = Append(@, frag)]

\* a logger that starts out logging everything
DefaultPriorityTrace == TracePriority

\* line 41: LogPriority priority = InfoPriority
DefaultPriority == InfoPriority

\* the logger after construction (lines 41-47), nothing written yet
Constructed ==
  /\ priority = DefaultPriority
  /\ log_mutex = NoThread
  /\ filepath = NoPath
  /\ file = NullFile
  /\ buffer = << >>
  /\ timestamp_format = DefaultFormat
  /\ handles = << >>
  /\ disk = [p \in Openable |-> NoFile]
  /\ stdout = << >>
  /\ tmbuf = localtime(0)
  /\ clock = 0
  /\ pc = [t \in Threads |-> "idle"]
  /\ frame = [t \in Threads |-> NoFrame]
  /\ ret = NoRet
  /\ running = "running"
  /\ ub = {}
  /\ requested = NoPath
  /\ hist = << >>

Init ==
  /\ Constructed
  /\ ncalls = MaxCalls
  /\ discipline = "free"

\* ------------------------------------------------------------- helpers
\* the lines of enable_file_output and free_file
EnablePcs == {"L177", "L178", "L179", "L171"}

CanCall(t) ==
  /\ running = "running"
  /\ pc[t] = "idle"
  /\ ncalls > 0
  /\ discipline = "quiet" => \A u \in Threads : pc[u] \notin EnablePcs
  /\ discipline = "serial" => t = 1

CanCallEnable(t) ==
  /\ CanCall(t)
  /\ discipline = "quiet" => \A u \in Threads : pc[u] = "idle"

Step(t, at) ==
  /\ running = "running"
  /\ pc[t] = at

Goto(t, next) == pc' = [pc EXCEPT ![t] = next]

\* a call returns val to thread t
Return(t, op, val) ==
  /\ pc' = [pc EXCEPT ![t] = "idle"]
  /\ frame' = [frame EXCEPT ![t] = NoFrame]
  /\ ret' = [op |-> op, t |-> t, val |-> val]

\* the test written with < : a call at exactly the threshold is dropped
AcceptsStrict(min, sev) == min < sev

\* line 148: if (priority <= message_priority)
Accepts(min, sev) == min <= sev

\* a lock that is granted to every thread that asks
NoLock(t) == TRUE

\* std::scoped_lock lock(log_mutex), line 152: blocks while another thread holds it
CanLock(t) == log_mutex = NoThread

\* the four fragments of one line, in the order lines 154-157 and 161-164 write
\* them: what is printed, and (history, not part of the output) the thread
\* whose call printed it
Fragment(t, kind) ==
  CASE kind = "ts"    -> << "ts", buffer, t >>
    [] kind = "label" -> << "label", << frame[t].label >>, t >>
    [] kind = "msg"   -> << "msg", << frame[t].msg >>, t >>
    [] kind = "nl"    -> << "nl", << >>, t >>

\* lines 154-157: the statement at a line, what it prints, the line after it
StdoutStmts ==
  { << "L154", "ts", "L155" >>, << "L155", "label", "L156" >>,
    << "L156", "msg", "L157" >>, << "L157", "nl", "L159" >> }

\* the file branch without its second fprintf: the label is left out
FileStmtsNoLabel ==
  { << "L161", "ts", "L163" >>, << "L163", "msg", "L164" >>,
    << "L164", "nl", "L166" >> }

\* lines 161-164
FileStmts ==
  { << "L161", "ts", "L162" >>, << "L162", "label", "L163" >>,
    << "L163", "msg", "L164" >>, << "L164", "nl", "L166" >> }

\* what using stream h can do: a null or closed FILE* is undefined behaviour
StreamUse(h) ==
  IF h = NullFile \/ ~handles[h].open THEN {"lost", "crash"} ELSE {"ok"}

UBOf(h, what) ==
  IF h = NullFile THEN {<< what, "null" >>}
  ELSE IF ~handles[h].open THEN {<< what, "closed" >>}
  ELSE {}

\* std::fopen(path, "a"): whether the open succeeds
FopenOk(path) == path \in Openable

\* ---------------------------------------------------------------- log
\* lines 92-132: an entry point passes its label and severity to log
LogCall(t, e, m) ==
  /\ CanCall(t)
  /\ frame' = [frame EXCEPT ![t] = [NoFrame EXCEPT !.name = e.name,
                                                   !.label = e.label,
                                                   !.sev = e.sev, !.msg = m]]
  /\ Goto(t, "L148")
  /\ ncalls' = ncalls - 1
  /\ ret' = NoRet
  /\ UNCHANGED << discipline, hist, shared, clock, running, ub, requested >>

\* the threshold test made under the lock: the call waits until the lock is free
LogCheckLocked(t) ==
  /\ Step(t, "L148")
  /\ log_mutex = NoThread
  /\ IF priority <= frame[t].sev
       THEN /\ Goto(t, "L149")
            /\ frame' = [frame EXCEPT ![t].seen = priority]
            /\ ret' = NoRet
       ELSE Return(t, "log", "void")
  /\ UNCHANGED << discipline, hist, shared, clock, running, ub, ncalls, requested >>

\* line 148: the threshold test, read without the lock
LogCheck(t) ==
  /\ Step(t, "L148")
  /\ IF Accepts(priority, frame[t].sev)
       THEN /\ Goto(t, "L149")
            /\ frame' = [frame EXCEPT ![t].seen = priority]
            /\ ret' = NoRet
       ELSE Return(t, "log", "void")
  /\ UNCHANGED << discipline, hist, shared, clock, running, ub, ncalls, requested >>

\* line 149: std::time(0)
LogTime(t) ==
  /\ Step(t, "L149")
  /\ frame' = [frame EXCEPT ![t].current_time = clock]
  /\ Goto(t, "L150")
  /\ ret' = NoRet
  /\ UNCHANGED << discipline, hist, shared, clock, running, ub, ncalls, requested >>

\* line 150: std::localtime writes its shared result object
LogLocaltime(t) ==
  /\ Step(t, "L150")
  /\ tmbuf' = localtime(frame[t].current_time)
  /\ Goto(t, "L152")
  /\ ret' = NoRet
  /\ UNCHANGED << discipline, hist, priority, log_mutex, filepath, file, buffer, timestamp_format,
                  handles, disk, stdout, clock, frame, running, ub, ncalls,
                  requested >>

\* line 152: acquire the lock
LogLock(t) ==
  /\ Step(t, "L152")
  /\ CanLock(t)
  /\ log_mutex' = t
  /\ Goto(t, "L153")
  /\ ret' = NoRet
  /\ UNCHANGED << discipline, hist, priority, filepath, file, buffer, timestamp_format, handles,
                  disk, stdout, tmbuf, clock, frame, running, ub, ncalls,
                  requested >>

\* line 153: render the shared tm into the shared buffer
LogStrftime(t) ==
  /\ Step(t, "L153")
  /\ buffer' = strftime(timestamp_format, tmbuf)
  /\ frame' = [frame EXCEPT ![t].rendered = buffer']
  /\ Goto(t, "L154")
  /\ ret' = NoRet
  /\ UNCHANGED << discipline, hist, priority, log_mutex, filepath, file, timestamp_format, handles,
                  disk, stdout, tmbuf, clock, running, ub, ncalls,
                  requested >>

\* lines 154-157: four printf calls
LogPrintf(t) ==
  \E s \in StdoutStmts :
    /\ Step(t, s[1])
    /\ stdout' = Append(stdout, Fragment(t, s[2]))
    /\ frame' = [frame EXCEPT ![t].nout = @ + 1]
    /\ Goto(t, s[3])
    /\ ret' = NoRet
    /\ UNCHANGED << discipline, hist, priority, log_mutex, filepath, file, buffer, timestamp_format,
                    handles, disk, tmbuf, clock, running, ub, ncalls,
                    requested >>

\* the lock scoped around the console output only: released before the file
\* branch
LogIfFileUnlocked(t) ==
  /\ Step(t, "L159")
  /\ Goto(t, IF file # NullFile THEN "L161" ELSE "L166")
  /\ log_mutex' = NoThread
  /\ ret' = NoRet
  /\ UNCHANGED << discipline, hist, priority, filepath, file, buffer,
                  timestamp_format, handles, disk, stdout, tmbuf, clock, frame,
                  running, ub, ncalls, requested >>

\* line 159: if (file)
LogIfFile(t) ==
  /\ Step(t, "L159")
  /\ Goto(t, IF file # NullFile THEN "L161" ELSE "L166")
  /\ ret' = NoRet
  /\ UNCHANGED << discipline, hist, shared, clock, frame, running, ub, ncalls, requested >>

\* lines 161-164: four fprintf calls, each reading the member file
LogFprintf(t) ==
  \E s \in FileStmts :
    /\ Step(t, s[1])
    /\ \E o \in StreamUse(file) :
         /\ disk' = IF o = "ok" THEN WriteFile(file, Fragment(t, s[2])) ELSE disk
         /\ frame' = IF o = "ok" THEN [frame EXCEPT ![t].nfile = @ + 1] ELSE frame
         /\ pc' = IF o = "crash" THEN pc ELSE [pc EXCEPT ![t] = s[3]]
         /\ running' = IF o = "crash" THEN "crashed" ELSE running
    /\ ub' = ub \cup UBOf(file, "fprintf")
    /\ ret' = NoRet
    /\ UNCHANGED << discipline, hist, priority, log_mutex, filepath, file, buffer, timestamp_format,
                    handles, stdout, tmbuf, clock, ncalls, requested >>

\* line 166: the scoped lock is released, log returns
\* what hist keeps of an accepted call: who made it, its severity, the time it
\* captured and the file its sink was open on
Returned(t) ==
  [t |-> t, sev |-> frame[t].sev,
   time |-> frame[t].current_time,
   sink |-> IF file = NullFile THEN NoPath ELSE handles[file].path]

LogUnlock(t) ==
  /\ Step(t, "L166")
  /\ log_mutex' = NoThread
  /\ hist' = Append(hist, Returned(t))
  /\ Return(t, "log", "void")
  /\ UNCHANGED << discipline, priority, filepath, file, buffer, timestamp_format, handles,
                  disk, stdout, tmbuf, clock, running, ub, ncalls, requested >>


\* --------------------------------------------------- EnableFileOutput
\* the path recorded only when it can be opened ("last successful path")
SetFilepathIfOpens(p) == filepath' = IF FopenOk(p) THEN p ELSE filepath

\* lines 60-65 and 69-74: the path is recorded first, then enable_file_output
\* runs (its first statement is the call of free_file, line 170)
SetFilepath(p) == filepath' = p

EnableFileOutput(t) ==
  /\ CanCallEnable(t)
  /\ SetFilepath(DefaultPath)
  /\ requested' = DefaultPath
  /\ Goto(t, "L177")
  /\ ncalls' = ncalls - 1
  /\ ret' = NoRet
  /\ UNCHANGED << discipline, hist, priority, log_mutex, file, buffer, timestamp_format, handles,
                  disk, stdout, tmbuf, clock, frame, running, ub >>

EnableFileOutputPath(t, p) ==
  /\ CanCallEnable(t)
  /\ SetFilepath(p)
  /\ requested' = p
  /\ Goto(t, "L177")
  /\ ncalls' = ncalls - 1
  /\ ret' = NoRet
  /\ UNCHANGED << discipline, hist, priority, log_mutex, file, buffer, timestamp_format, handles,
                  disk, stdout, tmbuf, clock, frame, running, ub >>

\* line 177: if (not file) return;
FreeFileCheck(t) ==
  /\ Step(t, "L177")
  /\ Goto(t, IF file = NullFile THEN "L171" ELSE "L178")
  /\ ret' = NoRet
  /\ UNCHANGED << discipline, hist, shared, clock, frame, running, ub, ncalls, requested >>

\* free_file without its fclose: the old handle stays open
FcloseForgotten(h) == handles

\* std::fclose(h): the handle is closed
Fclose(h) == [handles EXCEPT ![h].open = FALSE]

\* line 178: std::fclose(file)
FreeFileClose(t) ==
  /\ Step(t, "L178")
  /\ \E o \in StreamUse(file) :
       /\ handles' = IF o = "ok" THEN Fclose(file) ELSE handles
       /\ pc' = IF o = "crash" THEN pc ELSE [pc EXCEPT ![t] = "L179"]
       /\ running' = IF o = "crash" THEN "crashed" ELSE running
  /\ ub' = ub \cup UBOf(file, "fclose")
  /\ ret' = NoRet
  /\ UNCHANGED << discipline, hist, priority, log_mutex, filepath, file, buffer, timestamp_format,
                  disk, stdout, tmbuf, clock, frame, ncalls, requested >>

\* line 179: file = 0
FreeFileReset(t) ==
  /\ Step(t, "L179")
  /\ file' = NullFile
  /\ Goto(t, "L171")
  /\ ret' = NoRet
  /\ UNCHANGED << discipline, hist, priority, log_mutex, filepath, buffer, timestamp_format, handles,
                  disk, stdout, tmbuf, clock, frame, running, ub, ncalls,
                  requested >>

\* fopen(path, "w"): the file is truncated
Truncated(path) == [disk EXCEPT ![path] = << >>]

\* the file a successful fopen(path, "a") leaves: created empty when absent
Created(path) ==
  [disk EXCEPT ![path] = IF @ = NoFile THEN << >> ELSE @]

\* lines 171-173: file = std::fopen(filepath, "a"); return file != 0
EnableOpen(t) ==
  /\ Step(t, "L171")
  /\ IF FopenOk(filepath)
       THEN /\ handles' = Append(handles, [path |-> filepath, open |-> TRUE])
            /\ file' = Len(handles) + 1
            /\ disk' = Created(filepath)
            /\ Return(t, "EnableFileOutput", TRUE)
       ELSE /\ file' = NullFile
            /\ Return(t, "EnableFileOutput", FALSE)
            /\ UNCHANGED << handles, disk >>
  /\ UNCHANGED << discipline, hist, priority, log_mutex, filepath, buffer, timestamp_format, stdout,
                  tmbuf, clock, running, ub, ncalls, requested >>

\* a setter that also puts the timestamp format back to the default
SetPriorityAndFormat(t, new_priority) ==
  /\ CanCall(t)
  /\ priority' = new_priority
  /\ timestamp_format' = DefaultFormat
  /\ ncalls' = ncalls - 1
  /\ Return(t, "SetPriority", "void")
  /\ UNCHANGED << discipline, hist, log_mutex, filepath, file, buffer, handles,
                  disk, stdout, tmbuf, clock, running, ub, requested >>

\* -------------------------------------------------- setters and getters
\* line 53
SetPriority(t, new_priority) ==
  /\ CanCall(t)
  /\ priority' = new_priority
  /\ ncalls' = ncalls - 1
  /\ Return(t, "SetPriority", "void")
  /\ UNCHANGED << discipline, hist, log_mutex, filepath, file, buffer, timestamp_format, handles,
                  disk, stdout, tmbuf, clock, running, ub, requested >>

\* line 56
GetPriority(t) ==
  /\ CanCall(t)
  /\ ncalls' = ncalls - 1
  /\ Return(t, "GetPriority", priority)
  /\ UNCHANGED << discipline, hist, shared, clock, running, ub, requested >>

\* line 77
GetFilepath(t) ==
  /\ CanCall(t)
  /\ ncalls' = ncalls - 1
  /\ Return(t, "GetFilepath", filepath)
  /\ UNCHANGED << discipline, hist, shared, clock, running, ub, requested >>

\* the getter testing the recorded path instead of the handle
PathRecorded == filepath # NoPath

\* line 80: return file != 0
FileOutputEnabled == file # NullFile

IsFileOutputEnabled(t) ==
  /\ CanCall(t)
  /\ ncalls' = ncalls - 1
  /\ Return(t, "IsFileOutputEnabled", FileOutputEnabled)
  /\ UNCHANGED << discipline, hist, shared, clock, running, ub, requested >>

\* lines 84-86
SetTimestampFormat(t, new_timestamp_format) ==
  /\ CanCall(t)
  /\ timestamp_format' = new_timestamp_format
  /\ ncalls' = ncalls - 1
  /\ Return(t, "SetTimestampFormat", "void")
  /\ UNCHANGED << discipline, hist, priority, log_mutex, filepath, file, buffer, handles, disk,
                  stdout, tmbuf, clock, running, ub, requested >>

\* line 90
GetTimestampFormat(t) ==
  /\ CanCall(t)
  /\ ncalls' = ncalls - 1
  /\ Return(t, "GetTimestampFormat", timestamp_format)
  /\ UNCHANGED << discipline, hist, shared, clock, running, ub, requested >>

\* a destructor that does not call free_file
DestroyKeepsFile ==
  /\ running = "running"
  /\ \A t \in Threads : pc[t] = "idle"
  /\ running' = "exited"
  /\ ret' = NoRet
  /\ UNCHANGED << discipline, hist, shared, clock, pc, frame, ub, ncalls,
                  requested >>

\* ------------------------------------------------------------ teardown
\* line 138: ~Yellog() { free_file(); }, run once at process exit, after the
\* threads have finished their calls
Destroy ==
  /\ running = "running"
  /\ \A t \in Threads : pc[t] = "idle"
  /\ IF file = NullFile
       THEN UNCHANGED << file, handles >>
       ELSE handles' = Fclose(file) /\ file' = NullFile
  /\ running' = "exited"
  /\ ret' = NoRet
  /\ UNCHANGED << discipline, hist, priority, log_mutex, filepath, buffer, timestamp_format, disk,
                  stdout, tmbuf, clock, pc, frame, ub, ncalls, requested >>

\* ----------------------------------------------------------- the clock
\* time passes: std::time(0) never goes back
Tick ==
  /\ running = "running"
  /\ clock < MaxClock
  /\ clock' = clock + 1
  /\ ret' = NoRet
  /\ UNCHANGED << discipline, hist, shared, pc, frame, running, ub, ncalls, requested >>

\* ------------------------------------------------------ specifications
Next ==
  \/ \E t \in Threads :
       \/ \E e \in EntryPoints, m \in Msgs : LogCall(t, e, m)
       \/ LogCheck(t)
       \/ LogTime(t)
       \/ LogLocaltime(t)
       \/ LogLock(t)
       \/ LogStrftime(t)
       \/ LogPrintf(t)
       \/ LogIfFile(t)
       \/ LogFprintf(t)
       \/ LogUnlock(t)
       \/ EnableFileOutput(t)
       \/ \E p \in Paths : EnableFileOutputPath(t, p)
       \/ FreeFileCheck(t)
       \/ FreeFileClose(t)
       \/ FreeFileReset(t)
       \/ EnableOpen(t)
       \/ \E p \in LogPriority : SetPriority(t, p)
       \/ GetPriority(t)
       \/ GetFilepath(t)
       \/ IsFileOutputEnabled(t)
       \/ \E f \in Formats : SetTimestampFormat(t, f)
       \/ GetTimestampFormat(t)
  \/ Destroy
  \/ Tick

\* any thread may call any operation at any time
Spec == Init /\ [][Next]_vars

\* the callers run EnableFileOutput alone: it overlaps no other call
InitQuiet ==
  /\ Constructed
  /\ ncalls = MaxQuietCalls
  /\ discipline = "quiet"

SpecQuiet == InitQuiet /\ [][Next]_vars

\* a single-threaded program: thread 1 makes every call
InitSerial ==
  /\ Constructed
  /\ ncalls = MaxSerialCalls
  /\ discipline = "serial"

SpecSerial == InitSerial /\ [][Next]_vars

\* ------------------------------------------------------------- reading
LogPcs ==
  {"L148", "L149", "L150", "L152", "L153", "L154", "L155", "L156", "L157",
   "L159", "L161", "L162", "L163", "L164", "L166"}

\* the lines a thread executes while it holds the lock
CriticalPcs ==
  {"L153", "L154", "L155", "L156", "L157", "L159", "L161", "L162", "L163",
   "L164", "L166"}

Kinds == << "ts", "label", "msg", "nl" >>

\* every fragment of seq is the next fragment of a line, written by the thread
\* that wrote the first fragment of that line (the last line may be unfinished)
WellFormed(seq) ==
  \A i \in 1..Len(seq) :
    /\ seq[i][1] = Kinds[((i - 1) % 4) + 1]
    /\ seq[i][3] = seq[i - ((i - 1) % 4)][3]

LastLine(seq) == SubSeq(seq, Len(seq) - 3, Len(seq))

IsPrefix(a, b) == Len(a) <= Len(b) /\ SubSeq(b, 1, Len(a)) = a

RECURSIVE SumOver(_, _)
SumOver(f, S) ==
  IF S = {} THEN 0
  ELSE LET x == CHOOSE y \in S : TRUE IN f[x] + SumOver(f, S \ {x})

\* the returned accepted calls of thread t whose sink was the file p
CallsInto(t, p) ==
  Cardinality({ i \in 1..Len(hist) : hist[i].t = t /\ hist[i].sink = p })

\* the lines thread t has finished in seq
LinesBy(t, seq) ==
  Cardinality({ i \in 1..Len(seq) : seq[i][1] = "nl" /\ seq[i][3] = t })

\* the line thread t's call in flight has finished in file p, not yet in hist
InFlightInto(t, p) ==
  IF /\ pc[t] = "L166"
     /\ frame[t].nfile = 4
     /\ file # NullFile
     /\ handles[file].path = p
    THEN 1 ELSE 0

\* ---------------------------------------------------------------- C1
\* C1: a log call of severity S that reads threshold M at line 148 is rejected
\* (returns at once, both sinks unchanged, having written nothing) iff S < M,
\* and goes on to line 149 iff S >= M; a call that returns from line 166 was
\* accepted with S >= M and has written its line to standard output.
C1_EmittedIffAtLeastThreshold ==
  [][\A t \in Threads :
       /\ (pc[t] = "L148" /\ pc'[t] = "idle") =>
            /\ frame[t].sev < priority
            /\ frame[t].nout = 0 /\ frame[t].nfile = 0
            /\ stdout' = stdout /\ disk' = disk
       /\ (pc[t] = "L148" /\ pc'[t] \notin {"L148", "idle"}) =>
            /\ frame[t].sev >= priority
            /\ pc'[t] = "L149"
       /\ (pc[t] = "L166" /\ pc'[t] = "idle") =>
            /\ frame[t].sev >= frame[t].seen
            /\ frame[t].nout = 4
            /\ \E i \in 1..Len(stdout) :
                 stdout[i] = << "label", << frame[t].label >>, t >>
    ]_vars

\* a call at exactly the threshold, which is not the default one, has written
\* its line
C1_Witness ==
  \E t \in Threads :
    /\ pc[t] = "L166"
    /\ frame[t].sev = frame[t].seen
    /\ frame[t].seen = CriticalPriority
    /\ frame[t].nout = 4

\* ---------------------------------------------------------------- C2
\* C2: when EnableFileOutput overlaps no other call, every file holds only
\* whole lines, each written by one call (at most the last line unfinished,
\* by the call that holds the lock), and for every thread the number of lines
\* it finished in a file is the number of its accepted calls into that file.
C2_CompleteLines ==
  \A p \in Openable :
    disk[p] # NoFile =>
      /\ WellFormed(disk[p])
      /\ \A t \in Threads :
           LinesBy(t, disk[p]) = CallsInto(t, p) + InFlightInto(t, p)
      /\ (\A t \in Threads : pc[t] \notin LogPcs) => Len(disk[p]) % 4 = 0

\* one thread has finished its line in the file while another accepted call
\* waits for the lock, after an earlier line of the other thread
C2_Witness ==
  \E t, u \in Threads :
    /\ t # u
    /\ pc[t] = "L166" /\ frame[t].nfile = 4
    /\ pc[u] = "L152"
    /\ file # NullFile
    /\ Len(disk[handles[file].path]) = 4

\* ---------------------------------------------------------------- C3
\* C3: in every reachable state at most one file handle opened by the logger
\* is open.
C3_AtMostOneOpenHandle == Cardinality(OpenHandles) <= 1

\* ---------------------------------------------------------------- C4
\* the fragments the accepted calls account for in file p
Accounted(p) ==
  4 * Cardinality({ i \in 1..Len(hist) : hist[i].sink = p })
    + SumOver([t \in Threads |-> frame[t].nfile], Threads)

\* C4: when EnableFileOutput overlaps no other call: it returns false exactly
\* when its open fails, and then the logger has no file sink (file is null,
\* IsFileOutputEnabled is false, no handle is left open); an accepted log call
\* made without a sink has written its whole line to standard output and
\* nothing to a file when it reaches its return.
C4_FailedOpenLeavesNoSink ==
  /\ ret.op = "EnableFileOutput" =>
       /\ ret.val = FopenOk(requested)
       /\ ~ret.val => (file = NullFile /\ ~FileOutputEnabled /\ OpenHandles = {})
  /\ \A t \in Threads :
       (pc[t] = "L166" /\ file = NullFile) =>
         /\ frame[t].nout = 4
         /\ frame[t].nfile = 0
         /\ LastLine(stdout)[2] = << "label", << frame[t].label >>, t >>
         /\ \A p \in Openable :
              disk[p] # NoFile => Len(disk[p]) = Accounted(p)

\* exactly three calls: an open that succeeded, an open that failed, and an
\* accepted log call that has written its line to standard output only
C4_Witness ==
  \E t \in Threads :
    /\ ncalls = MaxQuietCalls - 3
    /\ Len(handles) = 1 /\ ~handles[1].open
    /\ requested = BadPath
    /\ file = NullFile
    /\ pc[t] = "L166"
    /\ frame[t].nout = 4 /\ frame[t].nfile = 0

\* ---------------------------------------------------------------- C5
\* C5: in a single-threaded run, a file's content is only ever extended
\* (never modified, shortened or removed), and only the file of the most
\* recent EnableFileOutput call, open as the sink, is extended: after the
\* sink moves from A to B, A stays as it was and the lines go to B.
C5_AppendOnlyToCurrentSink ==
  [][\A p \in Openable :
       disk[p] # NoFile =>
         /\ disk'[p] # NoFile
         /\ IsPrefix(disk[p], disk'[p])
         /\ disk'[p] # disk[p] =>
              /\ p = requested
              /\ file # NullFile
              /\ handles[file].open
              /\ handles[file].path = p
    ]_vars

\* a line in A, the sink moved to B, a line in B
C5_Witness ==
  /\ Len(handles) = 2
  /\ handles[1].path # handles[2].path
  /\ ~handles[1].open /\ handles[2].open /\ file = 2
  /\ Len(disk[handles[1].path]) = 4
  /\ Len(disk[handles[2].path]) = 4

\* ---------------------------------------------------------------- C6
\* C6: when EnableFileOutput overlaps no other call: standard output holds
\* exactly one line per accepted call (rejected calls add nothing), and a call
\* that reaches its return has written one line to standard output and, with
\* a sink open, one line to the file, fragment for fragment the same; with no
\* sink it has written nothing to a file.
C6_OneIdenticalLinePerAcceptedCall ==
  /\ Len(stdout) =
       4 * Len(hist) + SumOver([t \in Threads |-> frame[t].nout], Threads)
  /\ \A i \in 1..Len(hist) : hist[i].sev \in LogPriority
  /\ \A t \in Threads :
       pc[t] = "L166" =>
         /\ frame[t].nout = 4
         /\ LastLine(stdout)[1][1] = "ts"
         /\ LastLine(stdout)[2] = << "label", << frame[t].label >>, t >>
         /\ LastLine(stdout)[3] = << "msg", << frame[t].msg >>, t >>
         /\ LastLine(stdout)[4] = << "nl", << >>, t >>
         /\ IF file # NullFile
              THEN /\ frame[t].nfile = 4
                   /\ LastLine(disk[handles[file].path]) = LastLine(stdout)
              ELSE frame[t].nfile = 0

\* a second accepted call has written its line to both sinks
C6_Witness ==
  \E t \in Threads :
    /\ pc[t] = "L166"
    /\ file # NullFile
    /\ frame[t].nfile = 4
    /\ Len(hist) = 1 /\ hist[1].sink # NoPath

\* ---------------------------------------------------------------- C7
\* C7: when EnableFileOutput overlaps no other call, GetFilepath returns the
\* path of the most recent EnableFileOutput call, whether or not that open
\* succeeded, and none when there has been no such call.
C7_GetFilepathIsLastRequested ==
  ret.op = "GetFilepath" => ret.val = requested

\* the path of a failed open is returned, with no sink active
C7_Witness ==
  /\ ret.op = "GetFilepath"
  /\ ret.val = BadPath
  /\ file = NullFile
  /\ Len(handles) = 1

\* ---------------------------------------------------------------- C8
\* C8: a thread whose call is below the threshold can take its step at line
\* 148 whoever holds the lock, and that step returns leaving the lock, the
\* scratch buffer, the localtime result and both sinks untouched, with no time
\* captured.
C8_RejectedCallTouchesNothing ==
  /\ [](\A t \in Threads :
          (running = "running" /\ pc[t] = "L148" /\ frame[t].sev < priority)
            => ENABLED LogCheck(t))
  /\ [][\A t \in Threads :
          (pc[t] = "L148" /\ pc'[t] = "idle") =>
            /\ log_mutex' = log_mutex
            /\ buffer' = buffer
            /\ tmbuf' = tmbuf
            /\ stdout' = stdout
            /\ disk' = disk
            /\ frame[t].current_time = NoFrame.current_time
            /\ frame[t].nout = 0 /\ frame[t].nfile = 0
      ]_vars

\* a rejected call has just returned while another thread holds the lock
C8_Witness ==
  /\ ret.op = "log"
  /\ log_mutex # NoThread
  /\ log_mutex # ret.t

\* ---------------------------------------------------------------- C9
\* C9: no log call is ever stuck: the process is running, and a call waiting
\* at line 152 waits for a thread that is inside the critical section (which
\* can always step to its release).
C9_NoLogCallStuck ==
  \A t \in Threads :
    pc[t] \in LogPcs =>
      /\ running = "running"
      /\ pc[t] = "L152" =>
           (log_mutex = NoThread \/ pc[log_mutex] \in CriticalPcs)

\* --------------------------------------------------------------- C10
\* C10: when EnableFileOutput overlaps no other call: IsFileOutputEnabled
\* returns whether a handle is open; outside EnableFileOutput file is null iff
\* no handle is open (so it is false at the start); an EnableFileOutput that
\* returned true leaves it true, one that returned false leaves it false; and
\* no step of a log call, SetPriority or SetTimestampFormat changes it.
C10_EnabledIffSinkOpen ==
  /\ [](/\ ret.op = "IsFileOutputEnabled" => (ret.val <=> OpenHandles # {})
        /\ ret.op = "EnableFileOutput" =>
             /\ FileOutputEnabled <=> ret.val
             /\ ret.val <=> OpenHandles # {}
        /\ (running = "running" /\ \A t \in Threads : pc[t] \notin EnablePcs) =>
             /\ FileOutputEnabled <=> OpenHandles # {}
             /\ FileOutputEnabled <=> file \in OpenHandles)
  /\ [][(\/ \E t \in Threads : pc[t] \in LogPcs /\ pc'[t] # pc[t]
         \/ ret'.op \in {"log", "SetPriority", "SetTimestampFormat"})
          => (FileOutputEnabled' <=> FileOutputEnabled)
      ]_vars

\* IsFileOutputEnabled has just returned false after a failed open that
\* followed a successful one
C10_Witness ==
  /\ ret.op = "IsFileOutputEnabled"
  /\ ret.val = FALSE
  /\ requested = BadPath
  /\ Len(handles) = 1

\* --------------------------------------------------------------- C11
\* whether nothing has been written to a file, and no file created
NoFileTouched == \A p \in Openable : disk[p] = NoFile

\* C11: before any call the threshold is Info, no sink is open, no path is
\* recorded and nothing has been written; the first call of a run, when it is a
\* log call, is rejected at line 148 iff it is a Trace or Debug call, and an
\* Info, Warn, Error or Critical call reaches its return with exactly its one
\* line on standard output and no file touched.
C11_InitialState ==
  /\ [](/\ ncalls = MaxCalls =>
             /\ priority = InfoPriority
             /\ file = NullFile /\ handles = << >> /\ ~FileOutputEnabled
             /\ filepath = NoPath
             /\ stdout = << >> /\ NoFileTouched
        /\ \A t \in Threads :
             (ncalls = MaxCalls - 1 /\ pc[t] = "L166") =>
               /\ frame[t].sev \in {InfoPriority, WarnPriority, ErrorPriority,
                                    CriticalPriority}
               /\ frame[t].nout = 4 /\ Len(stdout) = 4
               /\ frame[t].nfile = 0 /\ NoFileTouched)
  /\ [][\A t \in Threads :
          (ncalls = MaxCalls - 1 /\ pc[t] = "L148" /\ pc'[t] # "L148") =>
            /\ pc'[t] = "idle" <=>
                 frame[t].sev \in {TracePriority, DebugPriority}
            /\ pc'[t] = "idle" => (stdout' = << >> /\ NoFileTouched')
      ]_vars

\* the first call of a run is an Info call and has written its line
C11_Witness ==
  \E t \in Threads :
    /\ ncalls = MaxCalls - 1
    /\ pc[t] = "L166"
    /\ frame[t].sev = InfoPriority
    /\ Len(stdout) = 4

\* --------------------------------------------------------------- C12
\* C12: a SetPriority(level) call makes level the threshold and changes nothing
\* else of the logger: the sink, its handles, the recorded path, the timestamp
\* format and everything written so far stay as they were; the threshold
\* changes in no other step, and GetPriority returns the threshold and changes
\* nothing, so it returns the level of the latest SetPriority.
C12_SetPriorityChangesOnlyThreshold ==
  [][/\ \A t \in Threads : \A level \in LogPriority :
          SetPriority(t, level) =>
            /\ priority' = level
            /\ UNCHANGED << file, handles, filepath, requested,
                            timestamp_format, stdout, disk, buffer, tmbuf,
                            log_mutex >>
     /\ priority' # priority => ret'.op = "SetPriority"
     /\ \A t \in Threads :
          GetPriority(t) => (ret'.val = priority /\ UNCHANGED shared)
    ]_vars

\* with a sink open on a path the caller gave, the threshold was set to
\* Critical and GetPriority has just returned it
C12_Witness ==
  /\ ret.op = "GetPriority"
  /\ ret.val = CriticalPriority
  /\ file # NullFile
  /\ filepath = OtherPath

\* --------------------------------------------------------------- C13
\* C13: a call in flight carries the severity and the label of the entry point
\* that was called (Trace: Trace and [TRACE], Debug: Debug and [DEBUG], Info:
\* Info and [INFO ], Warn: Warn and [WARN ], Error: Error and [ERROR],
\* Critical: Critical and [CRIT ]; the label is padded with five spaces), and
\* what the call has written so far to standard output and to the file sink is
\* the beginning of the line timestamp, that label, the message, newline, in
\* that order; so every line of either sink has these four parts in this order.
C13_EntryPointLabelAndLineOrder ==
  LET severity == [Trace |-> TracePriority, Debug |-> DebugPriority,
                   Info |-> InfoPriority, Warn |-> WarnPriority,
                   Error |-> ErrorPriority, Critical |-> CriticalPriority]
      tag == [Trace |-> "[TRACE]     ", Debug |-> "[DEBUG]     ",
              Info |-> "[INFO ]     ", Warn |-> "[WARN ]     ",
              Error |-> "[ERROR]     ", Critical |-> "[CRIT ]     "]
      line(t) == << << "ts", frame[t].rendered, t >>,
                    << "label", << tag[frame[t].name] >>, t >>,
                    << "msg", << frame[t].msg >>, t >>,
                    << "nl", << >>, t >> >>
      tail(seq, n) == SubSeq(seq, Len(seq) - n + 1, Len(seq))
  IN /\ WellFormed(stdout)
     /\ \A p \in Openable : disk[p] # NoFile => WellFormed(disk[p])
     /\ \A t \in Threads :
          pc[t] \in LogPcs =>
            /\ frame[t].name \in DOMAIN severity
            /\ frame[t].sev = severity[frame[t].name]
            /\ frame[t].label = tag[frame[t].name]
            /\ frame[t].nout <= Len(stdout)
            /\ tail(stdout, frame[t].nout) = SubSeq(line(t), 1, frame[t].nout)
            /\ frame[t].nfile > 0 =>
                 /\ file # NullFile
                 /\ frame[t].nfile <= Len(disk[handles[file].path])
                 /\ tail(disk[handles[file].path], frame[t].nfile)
                      = SubSeq(line(t), 1, frame[t].nfile)

\* a Critical call has written its whole line to both sinks
C13_Witness ==
  \E t \in Threads :
    /\ pc[t] = "L166"
    /\ frame[t].name = "Critical"
    /\ frame[t].nout = 4
    /\ frame[t].nfile = 4
    /\ LastLine(stdout)[2] = << "label", << "[CRIT ]     " >>, t >>

\* --------------------------------------------------------------- C14
\* C14: an accepted call captures the current time after it has acquired the
\* lock: a call that has captured its time (it is past line 149) and has not
\* returned holds the lock.
C14_TimeCapturedUnderLock ==
  \A t \in Threads :
    pc[t] \in (LogPcs \ {"L148", "L149"}) => log_mutex = t

\* --------------------------------------------------------------- C15
\* C15: at most one thread is at lines 153-166, and it holds the lock; from the
\* step after a call's strftime (line 153) until the call releases the lock no
\* step changes the scratch buffer, which stays the string that call rendered;
\* and the timestamp fragment a call prints, on standard output or into a file,
\* is the string rendered by that same call.
C15_OneThreadOwnsTheBuffer ==
  /\ [](/\ Cardinality({ t \in Threads : pc[t] \in CriticalPcs }) <= 1
        /\ \A t \in Threads :
             /\ pc[t] \in CriticalPcs => log_mutex = t
             /\ pc[t] \in (CriticalPcs \ {"L153"}) =>
                  /\ buffer = frame[t].rendered
                  /\ frame[t].nout >= 1 =>
                       stdout[Len(stdout) - frame[t].nout + 1]
                         = << "ts", frame[t].rendered, t >>)
  /\ [][/\ \A t \in Threads :
             (pc[t] \in (CriticalPcs \ {"L153"}) /\ pc'[t] \in CriticalPcs)
               => buffer' = buffer
        /\ \A p \in Openable :
             (disk[p] # NoFile /\ disk'[p] # NoFile
                /\ Len(disk'[p]) = Len(disk[p]) + 1) =>
               LET f == disk'[p][Len(disk'[p])]
               IN  f[1] = "ts" => f[2] = frame[f[3]].rendered
     ]_vars

\* a call has written its line to both sinks while another accepted call,
\* which captured a different time, waits for the lock
C15_Witness ==
  \E t, u \in Threads :
    /\ t # u
    /\ pc[t] = "L166" /\ frame[t].nout = 4 /\ frame[t].nfile = 4
    /\ pc[u] = "L152"
    /\ frame[u].current_time # frame[t].current_time
    /\ buffer = frame[t].rendered

\* --------------------------------------------------------------- C16
\* C16: the step that tears the logger down closes the handle of the sink that
\* is open at that moment, which was open until then, and closes no other
\* handle; with no sink open it leaves every handle as it was; after teardown
\* the sink pointer is null, no handle is open and no handle was ever closed
\* twice.
C16_TeardownClosesTheSinkOnce ==
  /\ [](running = "exited" =>
          /\ file = NullFile
          /\ OpenHandles = {}
          /\ \A u \in ub : u[1] # "fclose")
  /\ [][(running = "running" /\ running' = "exited") =>
          IF file = NullFile
            THEN handles' = handles
            ELSE /\ handles[file].open
                 /\ handles' = [handles EXCEPT ![file].open = FALSE]
                 /\ disk' = disk
     ]_vars

\* torn down after one line was written to the sink opened by the only
\* EnableFileOutput call of the run: the handle is closed, the line is there
C16_Witness ==
  /\ running = "exited"
  /\ ncalls = MaxQuietCalls - 2
  /\ Len(handles) = 1
  /\ ~handles[1].open
  /\ Len(disk[handles[1].path]) = 4

\* --------------------------------------------------------------- C17
\* C17: whatever the interleaving of log and EnableFileOutput calls, no stream
\* operation is applied to a handle that has been closed: no fprintf of a log
\* call and no fclose of free_file is given a closed handle.
C17_NoUseAfterClose ==
  \A u \in ub : u[2] # "closed"

\* --------------------------------------------------------------- C18
\* C18: whatever the interleaving of log and EnableFileOutput calls, every
\* file holds whole lines only: its fragments come in the order timestamp,
\* label, message, newline, each line written by one call, and a line is
\* unfinished only while the call that writes it is still in its file branch
\* (lines 162-164) and has written all its fragments so far to that file.
C18_WholeLinesInOneFile ==
  \A p \in Openable :
    disk[p] # NoFile =>
      /\ WellFormed(disk[p])
      /\ Len(disk[p]) % 4 # 0 =>
           \E t \in Threads :
             /\ pc[t] \in {"L162", "L163", "L164"}
             /\ frame[t].nfile = Len(disk[p]) % 4
             /\ disk[p][Len(disk[p])][3] = t

\* --------------------------------------------------------------- C19
\* C19: the lines of standard output are in the order the calls that wrote
\* them return, and the clock never goes back, so the claim is: of two
\* returned accepted calls, the one whose line comes first did not capture a
\* later time than the other.
C19_LinesInOrderOfCapturedTime ==
  \A i, j \in 1..Len(hist) :
    i < j => hist[i].time <= hist[j].time

\* --------------------------------------------------------------- C20
\* C20: from a call's std::localtime (line 150) to its strftime (line 153) the
\* shared broken-down time is the one of the time that call captured, and the
\* timestamp a call has rendered is the rendering of the time it captured.
C20_RenderedFromOwnCapturedTime ==
  \A t \in Threads :
    /\ pc[t] \in {"L152", "L153"} =>
         tmbuf = localtime(frame[t].current_time)
    /\ pc[t] \in (CriticalPcs \ {"L153"}) =>
         \E f \in Formats :
           frame[t].rendered = strftime(f, localtime(frame[t].current_time))

====
